---- MODULE Spec2Model ----
(***************************************************************************)
(* be-project-monitoring: the HTTP layer of internal/api (server.go routes *)
(* and project.go handlers) as a state machine over the relational store.  *)
(* Every request walks the gin handler chain of its route, one handler per *)
(* step; requests of different slots interleave between steps.             *)
(***************************************************************************)
EXTENDS Integers, Sequences, FiniteSets, TLC

\* ------------------------------------------------------------------ bounds
\* Requests in flight at once.
NReq == 2
\* Project ids the store hands out (serial primary key).
MaxProjects == 2
\* Task ids the store hands out (serial primary key).
MaxTasks == 1

Nil == "nil"

\* A nil pointer; a pointer that is set is a record [nil |-> FALSE, ...].
NilPtr == [nil |-> TRUE]

\* A response without a payload.
NoBody == [none |-> TRUE]

\* ------------------------------------------------------- users and tokens
Student == "student"
Admin == "admin"
ProjectManager == "project_manager"

UserRoles == {Student, Admin, ProjectManager}

\* The registered users; the global role is immutable after registration.
Users == {"u_pm", "u_st", "u_ad"}

UserRole(u) ==
    CASE u = "u_pm" -> ProjectManager
      [] u = "u_st" -> Student
      [] u = "u_ad" -> Admin

\* Bearer tokens a request may carry; "t_bad" maps to no user.
Tokens == {"t_pm", "t_st", "t_ad", "t_bad"}

\* tokenService.GetUserIDFromToken: the user of a token, Nil when invalid.
GetUserIDFromToken(t) ==
    CASE t = "t_pm" -> "u_pm"
      [] t = "t_st" -> "u_st"
      [] t = "t_ad" -> "u_ad"
      [] OTHER -> Nil

\* ------------------------------------------------------ participant roles
RoleOwner == "Owner"
RoleTeamlead == "Teamlead"
RoleMember == "Member"

ParticipantRoles == {RoleOwner, RoleTeamlead, RoleMember}

\* ------------------------------------------------------------ http status
StatusOK == 200
StatusCreated == 201
StatusBadRequest == 400
StatusUnauthorized == 401
StatusForbidden == 403
StatusInternalServerError == 500

\* Error values of the taxonomy, as the text put into the response.
ErrUnauthorized == "unauthorized"
ErrForbidden == "forbidden"
ErrInvalidInput == "invalid input"
ErrNotFound == "not found"
ErrConflict == "conflict"
\* A domain call aborted by the request context (deadline or cancellation).
ErrContext == "context deadline exceeded"
ErrAtoi == "strconv.Atoi: invalid syntax"
ErrDecode == "json: decode error"
ErrPanic == "panic recovered"

\* ------------------------------------------------------------------ routes
\* A handler of a gin chain: its name and, for a gate, the roles it allows.
Handler(name) == [h |-> name, allow |-> {}]

authMiddleware(toAllow) == [h |-> "authMiddleware", allow |-> toAllow]

verifyParticipantRoleMiddleware(toAllow) ==
    [h |-> "verifyParticipantRoleMiddleware", allow |-> toAllow]

verifyParticipantMiddleware == Handler("verifyParticipantMiddleware")

\* The router groups: the handlers every route of the group starts with.
pmRtr == <<authMiddleware({ProjectManager})>>

\* A project group that forgets the Admin role.
projectRtrNoAdmin == <<authMiddleware({ProjectManager, Student})>>

projectRtr == <<authMiddleware({Admin, ProjectManager, Student})>>

\* A task group registered without its participant gate.
taskRtrUngated == projectRtr

taskRtr == projectRtr \o <<verifyParticipantMiddleware>>

CreateProjectRoute == "POST /api/pm/"
UpdateProjectRoute == "POST /api/project/"
GetProjectInfoRoute == "GET /api/project/:project_id"
DeleteProjectRoute == "DELETE /api/project/:project_id"
AddParticipantRoute == "POST /api/project/:project_id/"
DeleteParticipantRoute == "DELETE /api/project/:project_id/:user_id"
CreateTaskRoute == "POST /api/project/:project_id/task/"
UpdateTaskRoute == "PUT /api/project/:project_id/task/"
GetTaskInfoRoute == "GET /api/project/:project_id/task/:task_id"
DeleteTaskRoute == "DELETE /api/project/:project_id/task/:task_id"

Routes ==
    {CreateProjectRoute, UpdateProjectRoute, GetProjectInfoRoute,
     DeleteProjectRoute, AddParticipantRoute, DeleteParticipantRoute,
     CreateTaskRoute, UpdateTaskRoute, GetTaskInfoRoute, DeleteTaskRoute}

\* The handler chain of each route, group handlers first, as New registers it.
CreateProjectChain == pmRtr \o <<Handler("createProject")>>

UpdateProjectChain == projectRtr \o <<Handler("updateProject")>>

GetProjectInfoChain == projectRtr \o <<Handler("getProjectInfo")>>

DeleteProjectChain ==
    projectRtr \o <<verifyParticipantRoleMiddleware({RoleOwner}),
                    Handler("deleteProject")>>

\* addParticipant registered without its role gate.
AddParticipantChainUngated == projectRtr \o <<Handler("addParticipant")>>

AddParticipantChain ==
    projectRtr \o <<verifyParticipantRoleMiddleware({RoleOwner, RoleTeamlead}),
                    Handler("addParticipant")>>

DeleteParticipantChain ==
    projectRtr \o <<verifyParticipantRoleMiddleware({RoleOwner, RoleTeamlead}),
                    Handler("deleteParticipant")>>

CreateTaskChain == taskRtr \o <<Handler("createTask")>>

UpdateTaskChain == taskRtr \o <<Handler("updateTask")>>

GetTaskInfoChain == taskRtr \o <<Handler("getTaskInfo")>>

DeleteTaskChain == taskRtr \o <<Handler("deleteTask")>>

Chain(route) ==
    CASE route = CreateProjectRoute -> CreateProjectChain
      [] route = UpdateProjectRoute -> UpdateProjectChain
      [] route = GetProjectInfoRoute -> GetProjectInfoChain
      [] route = DeleteProjectRoute -> DeleteProjectChain
      [] route = AddParticipantRoute -> AddParticipantChain
      [] route = DeleteParticipantRoute -> DeleteParticipantChain
      [] route = CreateTaskRoute -> CreateTaskChain
      [] route = UpdateTaskRoute -> UpdateTaskChain
      [] route = GetTaskInfoRoute -> GetTaskInfoChain
      [] route = DeleteTaskRoute -> DeleteTaskChain

\* The path parameter names each route's pattern declares.
ParamNames(route) ==
    CASE route \in {CreateProjectRoute, UpdateProjectRoute} -> {}
      [] route \in {GetProjectInfoRoute, DeleteProjectRoute, AddParticipantRoute,
                    CreateTaskRoute, UpdateTaskRoute} -> {"project_id"}
      [] route = DeleteParticipantRoute -> {"project_id", "user_id"}
      [] route \in {GetTaskInfoRoute, DeleteTaskRoute} -> {"project_id", "task_id"}

\* ------------------------------------------------------------ conversions
\* The decimal text of an id, as a client writes it into a path.
Itoa(n) ==
    CASE n = 1 -> "1"
      [] n = 2 -> "2"
      [] n = 3 -> "3"
      [] n = 4 -> "4"

\* Path segments a client sends for :project_id.
PathIDs == {Itoa(i) : i \in 1..MaxProjects}

\* strconv.Atoi on the strings of the model: [ok, n].
Atoi(s) ==
    CASE s = "1" -> [ok |-> TRUE, n |-> 1]
      [] s = "2" -> [ok |-> TRUE, n |-> 2]
      [] s = "3" -> [ok |-> TRUE, n |-> 3]
      [] s = "4" -> [ok |-> TRUE, n |-> 4]
      [] OTHER -> [ok |-> FALSE, n |-> 0]

\* ------------------------------------------------------------------- state
VARIABLES
    projects,          \* rows of the project table: [id, name, activeTo]
    participants,      \* rows of the participant table: [user, project, role]
    tasks,             \* rows of the task table: [id, project, status]
    nextProjectID,     \* the project table's serial key
    nextTaskID,        \* the task table's serial key
    updatedProject,    \* package-level var updatedProject *UpdateProjectReq
    deletedProjectID,  \* package-level var deletedProjectID *int
    req                \* the requests, by arrival order

vars ==
    <<projects, participants, tasks, nextProjectID, nextTaskID,
      updatedProject, deletedProjectID, req>>

store == <<projects, participants, tasks, nextProjectID, nextTaskID>>

globals == <<updatedProject, deletedProjectID>>

ReqIDs == 1..NReq

\* model.TaskStatuses, the literals a task status may take.
TaskStatuses == {"BACKLOG", "IN_PROGRESS", "REVIEW", "DONE"}

\* The zero time.Time, which a JSON body without "dueDate" decodes to.
ZeroTime == 0

\* A request not yet received.
NoRequest ==
    [route |-> Nil, token |-> Nil, project_id |-> "", user |-> Nil,
     role |-> Nil, name |-> Nil, id |-> 0, task |-> 0,
     idx |-> 0, userID |-> Nil, project |-> 0,
     status |-> 0, err |-> Nil, body |-> NoBody,
     passed |-> <<>>, gate |-> [pid |-> 0, row |-> "unchecked", verdict |-> "unchecked"],
     calls |-> <<>>, wrote |-> FALSE]

ProjectIDs == {p.id : p \in projects}

ProjectByID(id) == CHOOSE p \in projects : p.id = id

ParticipantsOf(id) == {x \in participants : x.project = id}

TasksOf(id) == {t \in tasks : t.project = id}

\* gin's c.Param: the value of a path parameter the route declares, "" otherwise.
Param(rq, key) ==
    IF key \notin ParamNames(rq.route) THEN ""
    ELSE CASE key = "project_id" -> rq.project_id
           [] key = "user_id" -> rq.user
           [] key = "task_id" -> Itoa(rq.task)

\* The handler the request is at.
Current(rq) == Chain(rq.route)[rq.idx]

\* A request in flight whose next handler is named h.
At(r, h) ==
    /\ req[r].route # Nil
    /\ req[r].status = 0
    /\ req[r].idx <= Len(Chain(req[r].route))
    /\ Current(req[r]).h = h

\* c.AbortWithStatusJSON / c.JSON: the response, which ends the chain.
Respond(rq, status, err, body) ==
    [rq EXCEPT !.status = status, !.err = err, !.body = body]

\* The handler returns without aborting: gin runs the next one.
Continue(rq) == [rq EXCEPT !.idx = @ + 1]

\* The project-scoped gate's record: the project it looked at, the role of the
\* (user, project) row the table held then ("none": no row), and its verdict.
RowRole(userID, projectID) ==
    IF \E x \in participants : x.user = userID /\ x.project = projectID
    THEN (CHOOSE x \in participants :
             x.user = userID /\ x.project = projectID).role
    ELSE "none"

Gate(rq, pid, verdict) ==
    [rq EXCEPT !.gate = [pid |-> pid, row |-> RowRole(rq.userID, pid),
                         verdict |-> verdict]]

Called(rq, op, arg) == [rq EXCEPT !.calls = Append(@, <<op, arg>>)]

\* ------------------------------------------------------------------ inputs
\* Users a body or a :user_id segment names.
NamedUsers == {"u_st", "u_pm"}

\* "name" of a CreateProjectReq body ("" is the missing required name).
CreateNames == {"", "a"}

\* What a client sends besides the token: path segments and body fields.
In(pid, user, role, name, id, task) ==
    [project_id |-> pid, user |-> user, role |-> role, name |-> name,
     id |-> id, task |-> task]

Inputs(route) ==
    CASE route = CreateProjectRoute ->
            {In("", Nil, Nil, n, 0, 0) : n \in CreateNames}
      [] route = UpdateProjectRoute ->
            {In("", Nil, Nil, "b", i, 0) : i \in 1..MaxProjects}
      [] route \in {GetProjectInfoRoute, DeleteProjectRoute, CreateTaskRoute} ->
            {In(p, Nil, Nil, Nil, 0, 0) : p \in PathIDs}
      [] route = AddParticipantRoute ->
            {In(p, u, ro, Nil, 0, 0) :
                p \in PathIDs, u \in NamedUsers, ro \in ParticipantRoles}
      [] route = DeleteParticipantRoute ->
            {In(p, u, Nil, Nil, 0, 0) : p \in PathIDs, u \in NamedUsers}
      [] route \in {UpdateTaskRoute, GetTaskInfoRoute, DeleteTaskRoute} ->
            {In(p, Nil, Nil, Nil, 0, t) : p \in PathIDs, t \in 1..MaxTasks}

\* ------------------------------------------------------------------- Init
\* The stores a run may start from, each as earlier requests leave it: empty;
\* project 1 with its creator as Owner (createProject); the same with u_st
\* added as Member or as Teamlead (addParticipant).
Project1 == [id |-> 1, name |-> "a", activeTo |-> 1]

Owner1 == [user |-> "u_pm", project |-> 1, role |-> RoleOwner]

InitStores ==
    {[projects |-> {}, participants |-> {}, nextProjectID |-> 1],
     [projects |-> {Project1}, participants |-> {Owner1}, nextProjectID |-> 2]}
    \cup
    {[projects |-> {Project1},
      participants |-> {Owner1, [user |-> "u_st", project |-> 1, role |-> ro]},
      nextProjectID |-> 2] : ro \in {RoleMember, RoleTeamlead}}

Init ==
    /\ \E s \in InitStores :
          /\ projects = s.projects
          /\ participants = s.participants
          /\ nextProjectID = s.nextProjectID
    /\ tasks = {}
    /\ nextTaskID = 1
    /\ updatedProject = NilPtr
    /\ deletedProjectID = NilPtr
    /\ req = [r \in ReqIDs |-> NoRequest]

\* ---------------------------------------------------------------- requests
\* The server accepts a request and starts its route's chain.
Receive(r) ==
    /\ req[r].route = Nil
    /\ IF r = 1 THEN TRUE ELSE req[r - 1].route # Nil
    /\ \E route \in Routes, token \in Tokens :
         \E in \in Inputs(route) :
            req' = [req EXCEPT ![r] =
                      [NoRequest EXCEPT
                         !.route = route, !.token = token,
                         !.project_id = in.project_id, !.user = in.user,
                         !.role = in.role, !.name = in.name, !.id = in.id,
                         !.task = in.task, !.idx = 1]]
    /\ UNCHANGED <<store, globals>>

\* --------------------------------------------------------------- middleware
\* tokenService.VerifyToken: Nil, or the error.
VerifyToken(token, toAllow) ==
    LET u == GetUserIDFromToken(token) IN
    IF u = Nil THEN ErrUnauthorized
    ELSE IF toAllow # {} /\ UserRole(u) \notin toAllow THEN ErrForbidden
    ELSE Nil

\* tokenService.VerifyParticipant: Nil, or the error.
VerifyParticipant(userID, projectID) ==
    IF \E x \in participants : x.user = userID /\ x.project = projectID
    THEN Nil ELSE ErrForbidden

\* tokenService.VerifyParticipantRole: Nil, or the error.
VerifyParticipantRole(userID, projectID, toAllow) ==
    IF \E x \in participants :
          x.user = userID /\ x.project = projectID /\ x.role \in toAllow
    THEN Nil ELSE ErrForbidden

\* authMiddleware(toAllow...): verifies the token and the global role, and
\* puts the user id into the request context.
AuthMiddleware(r) ==
    /\ At(r, "authMiddleware")
    /\ LET rq == req[r]
           err == VerifyToken(rq.token, Current(rq).allow)
       IN req' = [req EXCEPT ![r] =
              CASE err = ErrUnauthorized ->
                     Respond(rq, StatusUnauthorized, err, NoBody)
                [] err = ErrForbidden ->
                     Respond([rq EXCEPT !.passed = <<"token">>],
                             StatusForbidden, err, NoBody)
                [] OTHER ->
                     Continue([rq EXCEPT
                                 !.passed = <<"token", "globalRole">>,
                                 !.userID = GetUserIDFromToken(rq.token)])]
    /\ UNCHANGED <<store, globals>>

\* verifyParticipantRoleMiddleware(toAllow...): the explicit Admin bypass,
\* then the participant role of (user, :project_id).
VerifyParticipantRoleMiddleware(r) ==
    /\ At(r, "verifyParticipantRoleMiddleware")
    /\ LET rq == req[r]
           pid == Atoi(Param(rq, "project_id"))
       IN req' = [req EXCEPT ![r] =
              IF ~pid.ok THEN Respond(rq, StatusBadRequest, ErrAtoi, NoBody)
              ELSE IF UserRole(rq.userID) = Admin
                   THEN Continue([Gate(rq, pid.n, "bypass") EXCEPT
                                    !.passed = Append(@, "participantRole")])
              ELSE IF VerifyParticipantRole(rq.userID, pid.n, Current(rq).allow) = Nil
                   THEN Continue([Gate(rq, pid.n, "pass") EXCEPT
                                    !.passed = Append(@, "participantRole")])
              ELSE Respond(Gate(rq, pid.n, "forbidden"),
                           StatusForbidden, ErrForbidden, NoBody)]
    /\ UNCHANGED <<store, globals>>

\* verifyParticipantMiddleware(): the participant row of (user, :project_id).
VerifyParticipantMiddleware(r) ==
    /\ At(r, "verifyParticipantMiddleware")
    /\ LET rq == req[r]
           pid == Atoi(Param(rq, "project_id"))
       IN req' = [req EXCEPT ![r] =
              IF ~pid.ok THEN Respond(rq, StatusBadRequest, ErrAtoi, NoBody)
              ELSE IF VerifyParticipant(rq.userID, pid.n) = Nil
                   THEN Continue([Gate(rq, pid.n, "pass") EXCEPT
                                    !.passed = Append(@, "participant")])
              ELSE Respond(Gate(rq, pid.n, "forbidden"),
                           StatusForbidden, ErrForbidden, NoBody)]
    /\ UNCHANGED <<store, globals>>

\* ---------------------------------------------------------------- handlers
\* How the request context lets a domain call end: Nil (it runs), or the
\* context's error when the deadline passed or the client went away.
CtxOutcomes == {Nil, ErrContext}

\* projectService.CreateProject: the error, Nil when the row is inserted.
CreateProjectErr(name, cx) ==
    IF cx # Nil THEN cx
    ELSE IF name = "" THEN ErrInvalidInput
    ELSE Nil

\* participantService.AddParticipant: the error, Nil when the row is inserted.
AddParticipantErr(userID, projectID, cx) ==
    IF cx # Nil THEN cx
    ELSE IF projectID \notin ProjectIDs THEN ErrNotFound
    ELSE IF RowRole(userID, projectID) # "none" THEN ErrConflict
    ELSE Nil

\* A creator row written with the wrong role constant.
CreatorRoleTeamlead == RoleTeamlead

\* The role createProject gives the creator's participant row.
CreatorRole == RoleOwner

\* The status createProject answers with when a service call fails.
CreateProjectFailStatus(step) == StatusBadRequest

\* createProject, first half: decode the body, s.svc.CreateProject.
CreateProject(r) ==
    /\ At(r, "createProject")
    /\ req[r].project = 0
    /\ \E cx \in CtxOutcomes :
         LET rq == req[r]
             err == CreateProjectErr(rq.name, cx)
             row == [id |-> nextProjectID, name |-> rq.name, activeTo |-> 1]
         IN IF err # Nil
            THEN /\ req' = [req EXCEPT ![r] =
                             Respond(Called(rq, "CreateProject", 0),
                                     CreateProjectFailStatus("CreateProject"),
                                     err, NoBody)]
                 /\ UNCHANGED store
            ELSE /\ nextProjectID <= MaxProjects
                 /\ projects' = projects \cup {row}
                 /\ nextProjectID' = nextProjectID + 1
                 /\ req' = [req EXCEPT ![r] =
                             [Called(rq, "CreateProject", row.id) EXCEPT
                                !.project = row.id, !.wrote = TRUE]]
                 /\ UNCHANGED <<participants, tasks, nextTaskID>>
    /\ UNCHANGED globals

\* createProject, second half: s.svc.AddParticipant for the creator, and
\* the response.
CreateOwner(r) ==
    /\ At(r, "createProject")
    /\ req[r].project # 0
    /\ \E cx \in CtxOutcomes :
         LET rq == req[r]
             row == [user |-> rq.userID, project |-> rq.project,
                     role |-> CreatorRole]
             err == AddParticipantErr(rq.userID, rq.project, cx)
         IN IF rq.userID = Nil
            THEN /\ req' = [req EXCEPT ![r] =
                             Respond(rq, StatusInternalServerError, ErrPanic, NoBody)]
                 /\ UNCHANGED participants
            ELSE IF err # Nil
            THEN /\ req' = [req EXCEPT ![r] =
                             Respond(Called(rq, "AddParticipant", rq.project),
                                     CreateProjectFailStatus("AddParticipant"),
                                     err, NoBody)]
                 /\ UNCHANGED participants
            ELSE /\ participants' = participants \cup {row}
                 /\ req' = [req EXCEPT ![r] =
                             Respond(Called(rq, "AddParticipant", rq.project),
                                     StatusCreated, Nil,
                                     [project |-> ProjectByID(rq.project),
                                      participant |-> row])]
    /\ UNCHANGED <<projects, tasks, nextProjectID, nextTaskID, globals>>

\* json.Decoder.Decode into an UpdateProjectReq: a pointer field the body
\* omits stays nil, the time.Time field it omits stays the zero time.
DecodeUpdateProjectReq(rq) ==
    [nil |-> FALSE, id |-> rq.id, name |-> rq.name, activeTo |-> ZeroTime]

\* parseBodyToUpdatedProject: stores the decoded body in the package-level
\* updatedProject and the id in the context. No route of New chains it.
ParseBodyToUpdatedProject(rq) == DecodeUpdateProjectReq(rq)

\* The argument updateProject hands to s.svc.UpdateProject.
UpdateProjectArg(rq) == updatedProject

\* projectService.UpdateProject on a non-nil request: the patched row.
ApplyPatch(p, patch) ==
    [p EXCEPT !.name = IF patch.name # Nil THEN patch.name ELSE @,
              !.activeTo = IF patch.activeTo # ZeroTime
                           THEN patch.activeTo ELSE @]

\* The statuses a nil *UpdateProjectReq can end with: the service returns
\* an error (400) or dereferences it and gin's Recovery answers (500).
NilRequestStatuses == {StatusBadRequest, StatusInternalServerError}

\* updateProject: s.svc.UpdateProject on the package-level updatedProject,
\* then the participants of the project for the response.
UpdateProject(r) ==
    /\ At(r, "updateProject")
    /\ LET rq == req[r]
           arg == UpdateProjectArg(rq)
       IN IF arg.nil
          THEN /\ \E st \in NilRequestStatuses :
                    req' = [req EXCEPT ![r] =
                              Respond(Called(rq, "UpdateProject", arg), st,
                                      IF st = StatusBadRequest
                                      THEN ErrInvalidInput ELSE ErrPanic, NoBody)]
               /\ UNCHANGED store
          ELSE IF arg.id \notin ProjectIDs
          THEN /\ req' = [req EXCEPT ![r] =
                            Respond(Called(rq, "UpdateProject", arg),
                                    StatusBadRequest, ErrNotFound, NoBody)]
               /\ UNCHANGED store
          ELSE /\ projects' = (projects \ {ProjectByID(arg.id)})
                                \cup {ApplyPatch(ProjectByID(arg.id), arg)}
               /\ req' = [req EXCEPT ![r] =
                            Respond([Called(rq, "UpdateProject", arg)
                                       EXCEPT !.wrote = TRUE],
                                    StatusOK, Nil,
                                    [project |-> ApplyPatch(ProjectByID(arg.id), arg),
                                     participants |-> ParticipantsOf(arg.id)])]
               /\ UNCHANGED <<participants, tasks, nextProjectID, nextTaskID>>
    /\ UNCHANGED globals

\* The path parameter getProjectInfo reads its project id from.
ProjectInfoParam == "projectId"

\* makeShortTaskResponse over the project's tasks.
ShortTasks(ts) == {[id |-> t.id, status |-> t.status] : t \in ts}

\* getProjectInfo and sendProjectInfoResponse: the id from the path, then
\* the project with its participants and its tasks in short projection.
GetProjectInfo(r) ==
    /\ At(r, "getProjectInfo")
    /\ LET rq == req[r]
           projectID == Atoi(Param(rq, ProjectInfoParam))
       IN req' = [req EXCEPT ![r] =
            IF ~projectID.ok
            THEN Respond(rq, StatusBadRequest, ErrAtoi, NoBody)
            ELSE IF projectID.n \notin ProjectIDs
            THEN Respond(Called(rq, "GetProjectInfo", projectID.n),
                         StatusBadRequest, ErrNotFound, NoBody)
            ELSE Respond(Called(rq, "GetProjectInfo", projectID.n),
                         StatusOK, Nil,
                         [project |-> ProjectByID(projectID.n),
                          participants |-> ParticipantsOf(projectID.n),
                          tasks |-> ShortTasks(TasksOf(projectID.n))])]
    /\ UNCHANGED <<store, globals>>

\* The pointer deleteProject dereferences for the id it deletes.
DeleteProjectArg(rq) == deletedProjectID

\* parseBodyToDeletedProject: Decode into the nil package-level pointer
\* fails (json.InvalidUnmarshalError). No route of New chains it.
ParseBodyToDeletedProject(rq) ==
    IF deletedProjectID.nil THEN ErrDecode ELSE Nil

\* deleteProject: s.svc.DeleteProject(*deletedProjectID); the dereference of
\* the nil pointer panics and gin's Recovery answers 500.
DeleteProject(r) ==
    /\ At(r, "deleteProject")
    /\ LET rq == req[r]
           ptr == DeleteProjectArg(rq)
       IN IF ptr.nil
          THEN /\ req' = [req EXCEPT ![r] =
                            Respond(rq, StatusInternalServerError, ErrPanic, NoBody)]
               /\ UNCHANGED store
          ELSE IF ptr.v \notin ProjectIDs
          THEN /\ req' = [req EXCEPT ![r] =
                            Respond(Called(rq, "DeleteProject", ptr.v),
                                    StatusBadRequest, ErrNotFound, NoBody)]
               /\ UNCHANGED store
          ELSE /\ projects' = projects \ {ProjectByID(ptr.v)}
               /\ participants' = participants \ ParticipantsOf(ptr.v)
               /\ tasks' = tasks \ TasksOf(ptr.v)
               /\ req' = [req EXCEPT ![r] =
                            Respond([Called(rq, "DeleteProject", ptr.v)
                                       EXCEPT !.wrote = TRUE],
                                    StatusOK, Nil, NoBody)]
               /\ UNCHANGED <<nextProjectID, nextTaskID>>
    /\ UNCHANGED globals

\* addParticipant: participantService.AddParticipant of the body's user and
\* role to :project_id.
AddParticipant(r) ==
    /\ At(r, "addParticipant")
    /\ \E cx \in CtxOutcomes :
         LET rq == req[r]
             pid == Atoi(Param(rq, "project_id"))
             row == [user |-> rq.user, project |-> pid.n, role |-> rq.role]
             err == AddParticipantErr(rq.user, pid.n, cx)
         IN IF ~pid.ok
            THEN /\ req' = [req EXCEPT ![r] =
                             Respond(rq, StatusBadRequest, ErrAtoi, NoBody)]
                 /\ UNCHANGED participants
            ELSE IF err # Nil
            THEN /\ req' = [req EXCEPT ![r] =
                             Respond(Called(rq, "AddParticipant", pid.n),
                                     StatusBadRequest, err, NoBody)]
                 /\ UNCHANGED participants
            ELSE /\ participants' = participants \cup {row}
                 /\ req' = [req EXCEPT ![r] =
                             Respond([Called(rq, "AddParticipant", pid.n)
                                        EXCEPT !.wrote = TRUE],
                                     StatusCreated, Nil, [participant |-> row])]
    /\ UNCHANGED <<projects, tasks, nextProjectID, nextTaskID, globals>>

\* deleteParticipant: participantService.DeleteParticipant(:user_id, :project_id).
DeleteParticipant(r) ==
    /\ At(r, "deleteParticipant")
    /\ \E cx \in CtxOutcomes :
         LET rq == req[r]
             pid == Atoi(Param(rq, "project_id"))
             uid == Param(rq, "user_id")
             err == IF cx # Nil THEN cx
                    ELSE IF RowRole(uid, pid.n) = "none" THEN ErrNotFound
                    ELSE Nil
         IN IF ~pid.ok
            THEN /\ req' = [req EXCEPT ![r] =
                             Respond(rq, StatusBadRequest, ErrAtoi, NoBody)]
                 /\ UNCHANGED participants
            ELSE IF err # Nil
            THEN /\ req' = [req EXCEPT ![r] =
                             Respond(Called(rq, "DeleteParticipant", pid.n),
                                     StatusBadRequest, err, NoBody)]
                 /\ UNCHANGED participants
            ELSE /\ participants' =
                       {x \in participants : ~(x.user = uid /\ x.project = pid.n)}
                 /\ req' = [req EXCEPT ![r] =
                             Respond([Called(rq, "DeleteParticipant", pid.n)
                                        EXCEPT !.wrote = TRUE],
                                     StatusOK, Nil, NoBody)]
    /\ UNCHANGED <<projects, tasks, nextProjectID, nextTaskID, globals>>

\* createTask: taskService.CreateTask in :project_id, status BACKLOG.
CreateTask(r) ==
    /\ At(r, "createTask")
    /\ \E cx \in CtxOutcomes :
         LET rq == req[r]
             pid == Atoi(Param(rq, "project_id"))
             row == [id |-> nextTaskID, project |-> pid.n, status |-> "BACKLOG"]
             err == IF cx # Nil THEN cx
                    ELSE IF pid.n \notin ProjectIDs THEN ErrNotFound
                    ELSE Nil
         IN IF ~pid.ok
            THEN /\ req' = [req EXCEPT ![r] =
                             Respond(rq, StatusBadRequest, ErrAtoi, NoBody)]
                 /\ UNCHANGED <<tasks, nextTaskID>>
            ELSE IF err # Nil
            THEN /\ req' = [req EXCEPT ![r] =
                             Respond(Called(rq, "CreateTask", pid.n),
                                     StatusBadRequest, err, NoBody)]
                 /\ UNCHANGED <<tasks, nextTaskID>>
            ELSE /\ nextTaskID <= MaxTasks
                 /\ tasks' = tasks \cup {row}
                 /\ nextTaskID' = nextTaskID + 1
                 /\ req' = [req EXCEPT ![r] =
                             Respond([Called(rq, "CreateTask", pid.n)
                                        EXCEPT !.wrote = TRUE],
                                     StatusCreated, Nil, [task |-> row])]
    /\ UNCHANGED <<projects, participants, nextProjectID, globals>>

TaskIDs == {t.id : t \in tasks}

TaskByID(id) == CHOOSE t \in tasks : t.id = id

\* The status an UpdateTaskReq body of the model sets.
UpdatedStatus == "DONE"

\* updateTask: taskService.UpdateTask of the body's task; only the fields
\* the body sets change.
UpdateTask(r) ==
    /\ At(r, "updateTask")
    /\ \E cx \in CtxOutcomes :
         LET rq == req[r]
             err == IF cx # Nil THEN cx
                    ELSE IF UpdatedStatus \notin TaskStatuses THEN ErrInvalidInput
                    ELSE IF rq.task \notin TaskIDs THEN ErrNotFound
                    ELSE Nil
         IN IF err # Nil
            THEN /\ req' = [req EXCEPT ![r] =
                             Respond(Called(rq, "UpdateTask", rq.task),
                                     StatusBadRequest, err, NoBody)]
                 /\ UNCHANGED tasks
            ELSE /\ tasks' = (tasks \ {TaskByID(rq.task)})
                               \cup {[TaskByID(rq.task) EXCEPT !.status = UpdatedStatus]}
                 /\ req' = [req EXCEPT ![r] =
                             Respond([Called(rq, "UpdateTask", rq.task)
                                        EXCEPT !.wrote = TRUE],
                                     StatusOK, Nil, NoBody)]
    /\ UNCHANGED <<projects, participants, nextProjectID, nextTaskID, globals>>

\* getTaskInfo: taskService.GetTaskInfo(:task_id).
GetTaskInfo(r) ==
    /\ At(r, "getTaskInfo")
    /\ LET rq == req[r]
           tid == Atoi(Param(rq, "task_id"))
       IN req' = [req EXCEPT ![r] =
            IF ~tid.ok
            THEN Respond(rq, StatusBadRequest, ErrAtoi, NoBody)
            ELSE IF tid.n \notin TaskIDs
            THEN Respond(Called(rq, "GetTaskInfo", tid.n),
                         StatusBadRequest, ErrNotFound, NoBody)
            ELSE Respond(Called(rq, "GetTaskInfo", tid.n), StatusOK, Nil,
                         [task |-> TaskByID(tid.n)])]
    /\ UNCHANGED <<store, globals>>

\* deleteTask: taskService.DeleteTask(:task_id).
DeleteTask(r) ==
    /\ At(r, "deleteTask")
    /\ \E cx \in CtxOutcomes :
         LET rq == req[r]
             tid == Atoi(Param(rq, "task_id"))
             err == IF cx # Nil THEN cx
                    ELSE IF tid.n \notin TaskIDs THEN ErrNotFound
                    ELSE Nil
         IN IF ~tid.ok
            THEN /\ req' = [req EXCEPT ![r] =
                             Respond(rq, StatusBadRequest, ErrAtoi, NoBody)]
                 /\ UNCHANGED tasks
            ELSE IF err # Nil
            THEN /\ req' = [req EXCEPT ![r] =
                             Respond(Called(rq, "DeleteTask", tid.n),
                                     StatusBadRequest, err, NoBody)]
                 /\ UNCHANGED tasks
            ELSE /\ tasks' = tasks \ {TaskByID(tid.n)}
                 /\ req' = [req EXCEPT ![r] =
                             Respond([Called(rq, "DeleteTask", tid.n)
                                        EXCEPT !.wrote = TRUE],
                                     StatusOK, Nil, NoBody)]
    /\ UNCHANGED <<projects, participants, nextProjectID, nextTaskID, globals>>

Next ==
    \E r \in ReqIDs :
       \/ Receive(r)
       \/ AuthMiddleware(r)
       \/ VerifyParticipantRoleMiddleware(r)
       \/ VerifyParticipantMiddleware(r)
       \/ CreateProject(r)
       \/ CreateOwner(r)
       \/ UpdateProject(r)
       \/ GetProjectInfo(r)
       \/ DeleteProject(r)
       \/ AddParticipant(r)
       \/ DeleteParticipant(r)
       \/ CreateTask(r)
       \/ UpdateTask(r)
       \/ GetTaskInfo(r)
       \/ DeleteTask(r)

Spec == Init /\ [][Next]_vars

\* ================================================================== claims
Finished(r) == req[r].route # Nil /\ req[r].status # 0

\* No request has changed the store: it is as Init left it.
StoreUntouched == \A q \in ReqIDs : ~req[q].wrote

OtherUntouched(r) == \A q \in ReqIDs \ {r} : ~req[q].wrote

OwnerRows(id) == {x \in participants : x.project = id /\ x.role = RoleOwner}

CreatorRow(r) ==
    [user |-> req[r].userID, project |-> req[r].project, role |-> RoleOwner]

\* createProject requests that ended in an error after CreateProject stored
\* the project.
PartialFailure(r) ==
    /\ req[r].route = CreateProjectRoute
    /\ Finished(r)
    /\ req[r].project # 0
    /\ req[r].status # StatusCreated

\* createProject requests whose CreateProject call itself failed.
CreateFailure(r) ==
    /\ req[r].route = CreateProjectRoute
    /\ Finished(r)
    /\ req[r].project = 0
    /\ req[r].calls # <<>>

\* C1 as claimed: once a createProject request has finished, with success or
\* with an error, the project it stored has exactly one Owner row, the
\* requester's (here even with no other request touching the store).
C1_OneOwnerAfterAnyCreate ==
    \A r \in ReqIDs :
       (/\ req[r].route = CreateProjectRoute
        /\ Finished(r)
        /\ req[r].project # 0
        /\ OtherUntouched(r))
       => OwnerRows(req[r].project) = {CreatorRow(r)}

\* C1 (amended): a createProject request answered 201 Created names the
\* requester as Owner of the created project in its response, and, when no
\* other request has changed the store, that Owner row is the created
\* project's only Participant row.
C1_OwnerOnSuccess ==
    \A r \in ReqIDs :
       (req[r].route = CreateProjectRoute /\ req[r].status = StatusCreated)
       => /\ req[r].body.participant = CreatorRow(r)
          /\ req[r].body.project.id = req[r].project
          /\ req[r].userID = GetUserIDFromToken(req[r].token)
          /\ OtherUntouched(r) => ParticipantsOf(req[r].project) = {CreatorRow(r)}

C1_Witness ==
    \E r \in ReqIDs :
       /\ req[r].route = CreateProjectRoute
       /\ req[r].status = StatusCreated
       /\ OtherUntouched(r)
       /\ OwnerRows(req[r].project) = {CreatorRow(r)}

\* C2 as claimed: every UpdateProject call receives the patch decoded from
\* the body of its own request, never another request's and never nil.
C2_OwnPatch ==
    \A r \in ReqIDs :
       \A i \in DOMAIN req[r].calls :
          req[r].calls[i][1] = "UpdateProject"
          => req[r].calls[i][2] = DecodeUpdateProjectReq(req[r])

C2_Witness ==
    \E r \in ReqIDs :
       /\ req[r].route = UpdateProjectRoute
       /\ req[r].calls # <<>>
       /\ req[r].calls[1][2].nil

\* The checks each route owes before its handler, in the order they run.
RequiredChecks(route) ==
    CASE route \in {CreateProjectRoute, UpdateProjectRoute, GetProjectInfoRoute} ->
            <<"token", "globalRole">>
      [] route \in {DeleteProjectRoute, AddParticipantRoute, DeleteParticipantRoute} ->
            <<"token", "globalRole", "participantRole">>
      [] route \in {CreateTaskRoute, UpdateTaskRoute, GetTaskInfoRoute, DeleteTaskRoute} ->
            <<"token", "globalRole", "participant">>

IsPrefix(s, t) == Len(s) <= Len(t) /\ \A i \in 1..Len(s) : s[i] = t[i]

Rejected(status) == status \in {StatusUnauthorized, StatusForbidden}

\* C3: in every step, the checks a request has passed are an initial part of
\* token, global role, participant (role) check of its route; a step in which
\* a request calls a domain operation or changes the store is taken only by a
\* request that has passed all of its route's checks; and a step that answers
\* Unauthorized or Forbidden leaves the store unchanged, in a request that has
\* called no domain operation and changed nothing.
C3_ChecksBeforeOperation ==
    [][\A r \in ReqIDs :
          (req'[r] # req[r] /\ req[r].route # Nil)
          => /\ IsPrefix(req'[r].passed, RequiredChecks(req[r].route))
             /\ (store' # store \/ Len(req'[r].calls) > Len(req[r].calls))
                => /\ req[r].passed = RequiredChecks(req[r].route)
                   /\ ~Rejected(req'[r].status)
             /\ Rejected(req'[r].status)
                => /\ store' = store
                   /\ req'[r].calls = <<>>
                   /\ ~req'[r].wrote]_vars

C3_Witness ==
    \E r, q \in ReqIDs :
       /\ req[r].route = DeleteParticipantRoute
       /\ req[r].wrote
       /\ req[r].passed = <<"token", "globalRole", "participantRole">>
       /\ req[q].route = AddParticipantRoute
       /\ req[q].status = StatusForbidden
       /\ req[q].gate.verdict = "forbidden"
       /\ req[q].calls = <<>>

\* C4 as claimed: of two createProject requests, one whose CreateProject
\* failed and one whose AddParticipant failed after the project was stored,
\* the responses differ, and the second is not a success.
C4_DistinctErrors ==
    \A r, q \in ReqIDs :
       (CreateFailure(r) /\ PartialFailure(q))
       => /\ <<req[r].status, req[r].err, req[r].body>>
               # <<req[q].status, req[q].err, req[q].body>>
          /\ req[q].status # StatusCreated

\* C5 as claimed: an update request that sets only the name of a stored
\* project changes that name (and nothing else).
C5_ProvidedFieldChanges ==
    \A r \in ReqIDs :
       (/\ req[r].route = UpdateProjectRoute
        /\ Finished(r)
        /\ req[r].passed = <<"token", "globalRole">>
        /\ StoreUntouched
        /\ req[r].id \in ProjectIDs)
       => /\ req[r].status = StatusOK
          /\ ProjectByID(req[r].id).name = req[r].name

RoleGatedRoutes == {DeleteProjectRoute, AddParticipantRoute, DeleteParticipantRoute}

IsAdmin(r) ==
    /\ GetUserIDFromToken(req[r].token) # Nil
    /\ UserRole(GetUserIDFromToken(req[r].token)) = Admin

\* C6: a request with an Admin's token on a route behind a participant-role
\* gate is never answered Unauthorized or Forbidden, whatever rows the
\* project has; once the gate has looked at it, it has passed the gate.
C6_AdminPassesRoleGates ==
    \A r \in ReqIDs :
       (req[r].route \in RoleGatedRoutes /\ IsAdmin(r))
       => /\ ~Rejected(req[r].status)
          /\ req[r].gate.verdict \in {"unchecked", "bypass"}
          /\ req[r].idx = 3 => req[r].passed = RequiredChecks(req[r].route)
          /\ Finished(r) => req[r].idx = 3

\* An Admin with no row in an existing project that has no Participants at
\* all is past the gate of addParticipant.
C6_Witness ==
    \E r \in ReqIDs :
       /\ req[r].route = AddParticipantRoute
       /\ IsAdmin(r)
       /\ req[r].idx = 3
       /\ req[r].gate.row = "none"
       /\ req[r].gate.pid \in ProjectIDs
       /\ ParticipantsOf(req[r].gate.pid) = {}

\* C7 as claimed: a deleteProject request that passed its checks and names a
\* project the store does not hold ends with a NotFound error.
C7_NotFound ==
    \A r \in ReqIDs :
       (/\ req[r].route = DeleteProjectRoute
        /\ Finished(r)
        /\ req[r].passed = RequiredChecks(DeleteProjectRoute)
        /\ StoreUntouched
        /\ req[r].gate.pid \notin ProjectIDs)
       => /\ req[r].status = StatusBadRequest
          /\ req[r].err = ErrNotFound

TaskRoutes == {CreateTaskRoute, UpdateTaskRoute, GetTaskInfoRoute, DeleteTaskRoute}

C9_ExistingProjectOK ==
    \A r \in ReqIDs :
       (/\ req[r].route = GetProjectInfoRoute
        /\ Finished(r)
        /\ req[r].passed = <<"token", "globalRole">>
        /\ StoreUntouched
        /\ Atoi(req[r].project_id).n \in ProjectIDs)
       => /\ req[r].status = StatusOK
          /\ req[r].body.project.id = Atoi(req[r].project_id).n

C11_UpdateOnlyForOwnerOrAdmin ==
    \A r \in ReqIDs :
       (/\ req[r].route = UpdateProjectRoute
        /\ req[r].id \in ProjectIDs
        /\ \E i \in 1..Len(req[r].calls) : req[r].calls[i][1] = "UpdateProject")
       => \/ UserRole(req[r].userID) = Admin
          \/ RowRole(req[r].userID, req[r].id) = RoleOwner

====
